---------------------------- MODULE Spec2Model ----------------------------
(***************************************************************************)
(* A model of the persistent agent-memory store                            *)
(* (src/skills/agent-memory/memory.py, class AgentMemory).                 *)
(*                                                                         *)
(* Strings are sequences of one-character strings.  A timestamp is a       *)
(* number of clock ticks; the two textual forms the code stores and        *)
(* compares (SQLite's CURRENT_TIMESTAMP and Python's isoformat()) are      *)
(* sequences of numbers compared the way SQLite compares TEXT.  The local  *)
(* time zone is taken to be UTC and the 16-hex-digit SHA-256 prefix to be  *)
(* collision free on the inputs used.                                      *)
(*                                                                         *)
(* facts is the facts table as the store's connection sees it; durable is  *)
(* the table as of the connection's last commit.                           *)
(***************************************************************************)
EXTENDS Integers, Sequences, FiniteSets, TLC

(***************************************************************************)
(* Bounds of the model.                                                    *)
(***************************************************************************)
MaxCalls == 4
TicksPerDay == 2

(***************************************************************************)
(* Values of the program.                                                  *)
(***************************************************************************)
NULL == 0
None == "None"
SPACE == 32
LETTER_T == 84

VARIABLES facts, facts_fts, seq, durable, lessons, entities, now, calls, ret,
          conn, scope, pending

vars == <<facts, facts_fts, seq, durable, lessons, entities, now, calls, ret,
          conn, scope, pending>>

(***************************************************************************)
(* Inputs.                                                                 *)
(***************************************************************************)
Contents == { <<"a">>, <<" ", "A">>, <<"a", " ", "b">> }
\* The tags passed along with each content.
TagsOf(fact) == IF fact = <<" ", "A">> THEN <<"b">> ELSE <<>>
TagLists == { TagsOf(fact) : fact \in Contents }
Confidences == { 1 }
EntityArgs == { None }
Queries == { <<"a">>, <<"B">> }
Limits == { 1, 10 }
MaxAges == { 0, 1 }
MinAccessCounts == { 0, 1 }
Delays == { 0, 1 }
OldIds == { 1, 2, 3 }
EntityIds == { "e1", "e2" }
\* Attribute dictionaries: a Python dict is the sequence of its items.
AttrArgs ==
    { << <<"x", "1">> >>, << <<"y", "2">> >>, << <<"x", "3">> >>,
      << <<"name", "Bob">>, <<"y", "2">> >> }
IncludeFacts == { FALSE, TRUE }
\* The handles on one store, and what a handle inside update_entity has read.
Handles == { "h1", "h2" }
NoRead == [active |-> FALSE, entity_id |-> "", attributes |-> << >>, existing |-> << >>]
NoPending == [h \in Handles |-> NoRead]
\* The inputs of the specifications that run every operation.
StoreContents == { <<"a">>, <<"a", " ", "b">> }
StoreEntityArgs == { None, "e1" }
StoreOldIds == { 1, 2 }
StoreAttrArgs == { <<<<"x", "1">>>>, <<<<"name", "Bob">>, <<"y", "2">>>> }
\* The arguments of learn(), and the filters of get_lessons() ("" and None
\* are no filter).
LessonArgs ==
    { [action |-> "deploy", context |-> <<"a", "b">>, outcome |-> "success",
       insight |-> "works"],
      [action |-> "deploy", context |-> <<"B">>, outcome |-> "failure",
       insight |-> "breaks"] }
ContextArgs == { <<>>, <<"b">> }
OutcomeArgs == { None, "success" }

(***************************************************************************)
(* Strings.                                                                *)
(***************************************************************************)
LowerChar(c) == CASE c = "A" -> "a" [] c = "B" -> "b" [] OTHER -> c

Lower(s) == [i \in 1..Len(s) |-> LowerChar(s[i])]

RECURSIVE LStrip(_)
LStrip(s) == IF s # <<>> /\ Head(s) = " " THEN LStrip(Tail(s)) ELSE s

RECURSIVE RStrip(_)
RStrip(s) ==
    IF s # <<>> /\ s[Len(s)] = " " THEN RStrip(SubSeq(s, 1, Len(s) - 1)) ELSE s

Strip(s) == RStrip(LStrip(s))

\* TEXT comparison of two sequences of numbers, element by element.
RECURSIVE TextLess(_, _)
TextLess(a, b) ==
    IF b = <<>> THEN FALSE
    ELSE IF a = <<>> THEN TRUE
    ELSE IF Head(a) # Head(b) THEN Head(a) < Head(b)
    ELSE TextLess(Tail(a), Tail(b))

(***************************************************************************)
(* Timestamps.                                                             *)
(***************************************************************************)
\* CURRENT_TIMESTAMP: 'YYYY-MM-DD HH:MM:SS'
CurrentTimestamp(t) == << t \div TicksPerDay, SPACE, t % TicksPerDay >>

\* datetime.isoformat(): 'YYYY-MM-DDTHH:MM:SS.ffffff'
IsoFormat(t) == << t \div TicksPerDay, LETTER_T, t % TicksPerDay >>

(***************************************************************************)
(* JSON text of a list of strings, and the FTS5 tokens of a text.          *)
(***************************************************************************)
RECURSIVE JsonItems(_)
JsonItems(l) ==
    IF l = <<>> THEN <<>>
    ELSE IF Len(l) = 1 THEN << "\"", Head(l), "\"" >>
    ELSE << "\"", Head(l), "\"", ",", " " >> \o JsonItems(Tail(l))

JsonDumpsList(l) == << "[" >> \o JsonItems(l) \o << "]" >>

RECURSIVE JsonParseItems(_)
JsonParseItems(s) ==
    IF Len(s) < 3 THEN <<>>
    ELSE << s[2] >> \o JsonParseItems(SubSeq(s, 6, Len(s)))

JsonLoadsList(s) == JsonParseItems(SubSeq(s, 2, Len(s) - 1))

Separators == { " ", "[", "]", "\"", "," }

\* The unicode61 tokenizer: the case-folded words of a text (every word of the
\* inputs is one character long).
Tokens(s) == { LowerChar(s[i]) : i \in { j \in 1..Len(s) : s[j] \notin Separators } }

(***************************************************************************)
(* The content store.                                                      *)
(***************************************************************************)
\* A digest that forgets to trim, and one that forgets to lower-case.
HashContentNoStrip(content) == Lower(content)

HashContentNoLower(content) == Strip(content)

\* _hash_content: the digest of the lower-cased, trimmed content.
HashContent(content) == Strip(Lower(content))

\* SELECT id FROM facts WHERE hash = ?
ExistingIds(f, h) == { id \in DOMAIN f : f[id].hash = h }

\* A bump that makes the row live again.
BumpRowRevive(row, t) ==
    [row EXCEPT !.accessed_at = CurrentTimestamp(t),
                !.access_count = row.access_count + 1,
                !.superseded_by = NULL]

\* UPDATE facts SET accessed_at = CURRENT_TIMESTAMP, access_count = access_count + 1
BumpRow(row, t) ==
    [row EXCEPT !.accessed_at = CurrentTimestamp(t),
                !.access_count = row.access_count + 1]

\* INSERT INTO facts (content, tags, confidence, entity_id, hash)
NewRow(fact, tags, confidence, entity, t) ==
    [content |-> fact, tags |-> JsonDumpsList(tags), confidence |-> confidence,
     entity_id |-> entity, created_at |-> CurrentTimestamp(t),
     accessed_at |-> CurrentTimestamp(t), access_count |-> 0,
     superseded_by |-> NULL, hash |-> HashContent(fact)]

\* Trigger facts_ai: the index entry of an inserted row.
IndexEntry(row) == [content |-> Tokens(row.content), tags |-> Tokens(row.tags)]

\* A delete that leaves the index alone.
IndexKeep(fts, del) == fts

\* Trigger facts_ad: the index entries of the deleted rows go.
IndexDelete(fts, del) == [i \in DOMAIN fts \ del |-> fts[i]]

Extend(f, id, v) == [i \in DOMAIN f \cup {id} |-> IF i = id THEN v ELSE f[i]]

Restrict(f, S) == [i \in S |-> f[i]]

\* A remember that overwrites the row it finds with the tags, confidence and
\* entity of the call.
RememberResultOverwrite(f, fts, sq, t, fact, tags, confidence, entity) ==
    LET existing == ExistingIds(f, HashContent(fact)) IN
    IF existing # {}
    THEN LET id == CHOOSE i \in existing : TRUE IN
         [facts |-> [f EXCEPT ![id] =
                        [BumpRow(f[id], t) EXCEPT !.tags = JsonDumpsList(tags),
                                                  !.confidence = confidence,
                                                  !.entity_id = entity]],
          fts |-> fts, seq |-> sq, id |-> id]
    ELSE LET id == sq + 1
             row == NewRow(fact, tags, confidence, entity, t) IN
         [facts |-> Extend(f, id, row),
          fts |-> Extend(fts, id, IndexEntry(row)), seq |-> id, id |-> id]

\* A remember whose new id is one more than the highest id in the table.
RememberResultMaxRowid(f, fts, sq, t, fact, tags, confidence, entity) ==
    LET existing == ExistingIds(f, HashContent(fact)) IN
    IF existing # {}
    THEN LET id == CHOOSE i \in existing : TRUE IN
         [facts |-> [f EXCEPT ![id] = BumpRow(f[id], t)],
          fts |-> fts, seq |-> sq, id |-> id]
    ELSE LET id == IF DOMAIN f = {} THEN 1
                   ELSE (CHOOSE m \in DOMAIN f : \A x \in DOMAIN f : x <= m) + 1
             row == NewRow(fact, tags, confidence, entity, t) IN
         [facts |-> Extend(f, id, row),
          fts |-> Extend(fts, id, IndexEntry(row)), seq |-> id, id |-> id]

\* remember(): the store after the call and the id it returns.
RememberResult(f, fts, sq, t, fact, tags, confidence, entity) ==
    LET existing == ExistingIds(f, HashContent(fact)) IN
    IF existing # {}
    THEN LET id == CHOOSE i \in existing : TRUE IN
         [facts |-> [f EXCEPT ![id] = BumpRow(f[id], t)],
          fts |-> fts, seq |-> sq, id |-> id]
    ELSE LET id == sq + 1
             row == NewRow(fact, tags, confidence, entity, t) IN
         [facts |-> Extend(f, id, row),
          fts |-> Extend(fts, id, IndexEntry(row)), seq |-> id, id |-> id]

\* One more call of the API, d ticks after the last one, on the open
\* handle: self.conn.cursor() succeeds.
Call(d) ==
    /\ calls < MaxCalls
    /\ conn = "open"
    /\ calls' = calls + 1
    /\ now' = now + d
    /\ UNCHANGED <<conn, scope, pending>>

Remember(fact, tags, confidence, entity, d) ==
    /\ Call(d)
    /\ LET r == RememberResult(facts, facts_fts, seq, now + d,
                               fact, tags, confidence, entity) IN
       /\ facts' = r.facts
       /\ facts_fts' = r.fts
       /\ seq' = r.seq
       /\ ret' = [op |-> "remember", fact |-> fact, result |-> r.id]
    /\ durable' = facts'
    /\ UNCHANGED <<lessons, entities>>

\* WHERE facts_fts MATCH ?: every word of the query is in the entry.
FtsMatch(entry, query) == Tokens(query) \subseteq (entry.content \cup entry.tags)

\* A selection that forgets the filter on superseded_by.
RecallSelectAll(f, fts, query) ==
    { id \in DOMAIN f \cap DOMAIN fts : FtsMatch(fts[id], query) }

\* FROM facts f JOIN facts_fts fts ON f.id = fts.rowid
\* WHERE facts_fts MATCH ? AND f.superseded_by IS NULL
RecallSelect(f, fts, query) ==
    { id \in DOMAIN f \cap DOMAIN fts :
        FtsMatch(fts[id], query) /\ f[id].superseded_by = NULL }

\* LIMIT ?: a negative limit is no limit.
LimitCount(n, limit) == IF limit < 0 \/ limit > n THEN n ELSE limit

Range(s) == { s[i] : i \in DOMAIN s }

\* ORDER BY rank LIMIT ?: the rank is SQLite's bm25 score, which is not part of
\* the program; every order of the selected rows is a possible outcome.
RecallRows(f, fts, query, limit) ==
    LET sel == RecallSelect(f, fts, query)
        n == LimitCount(Cardinality(sel), limit) IN
    { rows \in [1..n -> sel] : \A i, j \in 1..n : rows[i] = rows[j] => i = j }

\* The dictionary recall() appends for a fetched row.
FactView(id, row) ==
    [id |-> id, content |-> row.content, tags |-> JsonLoadsList(row.tags),
     confidence |-> row.confidence, entity_id |-> row.entity_id,
     created_at |-> row.created_at, access_count |-> row.access_count]

\* An UPDATE that forgets its WHERE clause.
RecallBumpEvery(f, rows, t) == [id \in DOMAIN f |-> BumpRow(f[id], t)]

\* The loop of recall(): one UPDATE per fetched row.
RecallBump(f, rows, t) ==
    [id \in DOMAIN f |-> IF id \in Range(rows) THEN BumpRow(f[id], t) ELSE f[id]]

Recall(query, limit, d) ==
    /\ Call(d)
    /\ \E rows \in RecallRows(facts, facts_fts, query, limit) :
         /\ facts' = RecallBump(facts, rows, now + d)
         /\ ret' = [op |-> "recall", query |-> query, limit |-> limit,
                    result |-> [i \in 1..Len(rows) |-> FactView(rows[i], facts[rows[i]])]]
    /\ durable' = facts'
    /\ UNCHANGED <<facts_fts, seq, lessons, entities>>

\* recall() raising at row k of the rows it fetched (json.loads of the row's
\* tags, or the row's UPDATE, fails): the rows before it have been updated in
\* the open transaction, nothing is committed and nothing is returned.
RecallInterrupted(query, limit, d) ==
    /\ Call(d)
    /\ \E rows \in RecallRows(facts, facts_fts, query, limit) :
         \E k \in 1..Len(rows) :
            /\ facts' = RecallBump(facts, SubSeq(rows, 1, k - 1), now + d)
            /\ ret' = [op |-> "recall", query |-> query, limit |-> limit,
                       raised |-> TRUE]
    /\ UNCHANGED <<facts_fts, seq, durable, lessons, entities>>

\* A supersede that deletes the old row.
MarkSupersededDelete(f, old_fact_id, new_id) ==
    [id \in DOMAIN f \ {old_fact_id} |-> f[id]]

\* UPDATE facts SET superseded_by = ? WHERE id = ?
MarkSuperseded(f, old_fact_id, new_id) ==
    [id \in DOMAIN f |->
        IF id = old_fact_id THEN [f[id] EXCEPT !.superseded_by = new_id] ELSE f[id]]

Supersede(old_fact_id, new_fact, tags, confidence, entity, d) ==
    /\ Call(d)
    /\ LET r == RememberResult(facts, facts_fts, seq, now + d,
                               new_fact, tags, confidence, entity) IN
       /\ facts' = MarkSuperseded(r.facts, old_fact_id, r.id)
       /\ facts_fts' = r.fts
       /\ seq' = r.seq
       /\ ret' = [op |-> "supersede", old_fact_id |-> old_fact_id,
                  fact |-> new_fact, result |-> r.id]
    /\ durable' = facts'
    /\ UNCHANGED <<lessons, entities>>

\* supersede() raising after remember() has returned (its UPDATE fails, or
\* the call is interrupted): remember() has committed.
SupersedeInterrupted(old_fact_id, new_fact, tags, confidence, entity, d) ==
    /\ Call(d)
    /\ LET r == RememberResult(facts, facts_fts, seq, now + d,
                               new_fact, tags, confidence, entity) IN
       /\ facts' = r.facts
       /\ facts_fts' = r.fts
       /\ seq' = r.seq
       /\ ret' = [op |-> "supersede", old_fact_id |-> old_fact_id,
                  fact |-> new_fact, raised |-> TRUE]
    /\ durable' = facts'
    /\ UNCHANGED <<lessons, entities>>

\* cutoff = datetime.now() - timedelta(days=max_age_days)
Cutoff(t, max_age_days) == t - max_age_days * TicksPerDay

\* A sweep that takes live and superseded rows alike.
CleanupSelectAll(f, t, max_age_days, min_access_count) ==
    { id \in DOMAIN f :
        /\ TextLess(f[id].accessed_at, IsoFormat(Cutoff(t, max_age_days)))
        /\ f[id].access_count <= min_access_count }

\* DELETE FROM facts WHERE accessed_at < ? AND access_count <= ?
\* AND superseded_by IS NULL, with ? = cutoff.isoformat()
CleanupSelect(f, t, max_age_days, min_access_count) ==
    { id \in DOMAIN f :
        /\ TextLess(f[id].accessed_at, IsoFormat(Cutoff(t, max_age_days)))
        /\ f[id].access_count <= min_access_count
        /\ f[id].superseded_by = NULL }

Cleanup(max_age_days, min_access_count, d) ==
    /\ Call(d)
    /\ LET del == CleanupSelect(facts, now + d, max_age_days, min_access_count) IN
       /\ facts' = Restrict(facts, DOMAIN facts \ del)
       /\ facts_fts' = IndexDelete(facts_fts, del)
       /\ ret' = [op |-> "cleanup", max_age_days |-> max_age_days,
                  min_access_count |-> min_access_count,
                  result |-> Cardinality(del)]
    /\ durable' = facts'
    /\ UNCHANGED <<seq, lessons, entities>>

\* A stats that counts the superseded facts too.
StatsResultAll(f, ls, es) ==
    [facts |-> Cardinality(DOMAIN f),
     lessons |-> Len(ls), entities |-> Cardinality(DOMAIN es)]

\* stats()
StatsResult(f, ls, es) ==
    [facts |-> Cardinality({ id \in DOMAIN f : f[id].superseded_by = NULL }),
     lessons |-> Len(ls), entities |-> Cardinality(DOMAIN es)]

Stats(d) ==
    /\ Call(d)
    /\ ret' = [op |-> "stats", result |-> StatsResult(facts, lessons, entities)]
    /\ UNCHANGED <<facts, facts_fts, seq, durable, lessons, entities>>

(***************************************************************************)
(* The lesson log.  No lesson is deleted, so the lesson with id i is the   *)
(* i-th of the sequence.                                                   *)
(***************************************************************************)
\* INSERT INTO lessons (action, context, outcome, insight)
NewLesson(a, t) ==
    [action |-> a.action, context |-> a.context, outcome |-> a.outcome,
     insight |-> a.insight, created_at |-> CurrentTimestamp(t), applied_count |-> 0]

\* A learn that returns the lesson that has the same four fields, when
\* there is one.
LearnDedup(a, d) ==
    /\ Call(d)
    /\ LET same == { i \in DOMAIN lessons :
                       /\ lessons[i].action = a.action
                       /\ lessons[i].context = a.context
                       /\ lessons[i].outcome = a.outcome
                       /\ lessons[i].insight = a.insight } IN
       IF same # {}
       THEN /\ lessons' = lessons
            /\ ret' = [op |-> "learn", args |-> a, result |-> CHOOSE i \in same : TRUE]
       ELSE /\ lessons' = Append(lessons, NewLesson(a, now + d))
            /\ ret' = [op |-> "learn", args |-> a, result |-> Len(lessons) + 1]
    /\ durable' = facts
    /\ UNCHANGED <<facts, facts_fts, seq, entities>>

Learn(a, d) ==
    /\ Call(d)
    /\ lessons' = Append(lessons, NewLesson(a, now + d))
    /\ ret' = [op |-> "learn", args |-> a, result |-> Len(lessons) + 1]
    /\ durable' = facts
    /\ UNCHANGED <<facts, facts_fts, seq, entities>>

IsSubstring(p, s) ==
    \E i \in 0..(Len(s) - Len(p)) : SubSeq(s, i + 1, i + Len(p)) = p

\* context LIKE '%...%' (LIKE ignores the case of ASCII letters)
Like(s, p) == IsSubstring(Lower(p), Lower(s))

\* SELECT * FROM lessons WHERE 1=1 [AND context LIKE ?] [AND outcome = ?]
LessonSelect(ls, context, outcome) ==
    { i \in DOMAIN ls :
        /\ context # <<>> => Like(ls[i].context, context)
        /\ outcome # None => ls[i].outcome = outcome }

\* ORDER BY created_at DESC LIMIT ?: lessons of one created_at come in any
\* order.
LessonRows(ls, context, outcome, limit) ==
    LET sel == LessonSelect(ls, context, outcome)
        n == LimitCount(Cardinality(sel), limit) IN
    { rows \in [1..n -> sel] :
        /\ \A i, j \in 1..n : rows[i] = rows[j] => i = j
        /\ \A i, j \in 1..n :
              i < j => ~TextLess(ls[rows[i]].created_at, ls[rows[j]].created_at)
        /\ \A i \in 1..n, x \in sel \ Range(rows) :
              ~TextLess(ls[rows[i]].created_at, ls[x].created_at) }

LessonView(id, row) ==
    [id |-> id, action |-> row.action, context |-> row.context,
     outcome |-> row.outcome, insight |-> row.insight,
     created_at |-> row.created_at, applied_count |-> row.applied_count]

GetLessons(context, outcome, limit, d) ==
    /\ Call(d)
    /\ \E rows \in LessonRows(lessons, context, outcome, limit) :
         ret' = [op |-> "get_lessons", context |-> context, outcome |-> outcome,
                 limit |-> limit,
                 result |-> [i \in 1..Len(rows) |-> LessonView(rows[i], lessons[rows[i]])]]
    /\ UNCHANGED <<facts, facts_fts, seq, durable, lessons, entities>>

(***************************************************************************)
(* Python dictionaries and their JSON text.                                *)
(***************************************************************************)
DictKeys(dict) == { dict[i][1] : i \in DOMAIN dict }

DictGet(dict, k, default) ==
    IF k \in DictKeys(dict)
    THEN (dict[CHOOSE i \in DOMAIN dict : dict[i][1] = k])[2]
    ELSE default

\* dict.pop(k, default): the dictionary left.
DictPop(dict, k) == SelectSeq(dict, LAMBDA item : item[1] # k)

DictSet(dict, k, v) ==
    IF k \in DictKeys(dict)
    THEN [i \in DOMAIN dict |-> IF dict[i][1] = k THEN <<k, v>> ELSE dict[i]]
    ELSE Append(dict, <<k, v>>)

\* An update that replaces the dictionary.
DictReplace(dict, other) == other

\* dict.update(other)
RECURSIVE DictUpdate(_, _)
DictUpdate(dict, other) ==
    IF other = <<>> THEN dict
    ELSE DictUpdate(DictSet(dict, Head(other)[1], Head(other)[2]), Tail(other))

\* The mapping a dictionary stands for.
DictMap(dict) == [k \in DictKeys(dict) |-> DictGet(dict, k, None)]

RECURSIVE JsonMembers(_)
JsonMembers(dict) ==
    IF dict = <<>> THEN <<>>
    ELSE LET m == << "\"", Head(dict)[1], "\"", ":", " ", "\"", Head(dict)[2], "\"" >> IN
         IF Len(dict) = 1 THEN m ELSE m \o << ",", " " >> \o JsonMembers(Tail(dict))

JsonDumpsDict(dict) == << "{" >> \o JsonMembers(dict) \o << "}" >>

RECURSIVE JsonParseMembers(_)
JsonParseMembers(s) ==
    IF Len(s) < 8 THEN <<>>
    ELSE << <<s[2], s[7]>> >> \o JsonParseMembers(SubSeq(s, 11, Len(s)))

JsonLoadsDict(s) == JsonParseMembers(SubSeq(s, 2, Len(s) - 1))

(***************************************************************************)
(* The entity registry.                                                    *)
(***************************************************************************)
\* A track_entity that merges into the stored attributes.
TrackEntityMerge(es, entity_id, attributes, t) ==
    LET name == DictGet(attributes, "name", entity_id)
        new == DictPop(attributes, "name") IN
    IF entity_id \in DOMAIN es
    THEN [es EXCEPT ![entity_id] =
            [@ EXCEPT !.attributes =
                          JsonDumpsDict(DictUpdate(JsonLoadsDict(@), new)),
                      !.updated_at = CurrentTimestamp(t)]]
    ELSE Extend(es, entity_id,
            [name |-> name, attributes |-> JsonDumpsDict(new),
             created_at |-> CurrentTimestamp(t), updated_at |-> CurrentTimestamp(t)])

\* track_entity(): INSERT INTO entities ... ON CONFLICT(id) DO UPDATE SET
\* attributes = ?, updated_at = CURRENT_TIMESTAMP
TrackEntityResult(es, entity_id, attributes, t) ==
    LET name == DictGet(attributes, "name", entity_id)
        bag == JsonDumpsDict(DictPop(attributes, "name")) IN
    IF entity_id \in DOMAIN es
    THEN [es EXCEPT ![entity_id] =
            [@ EXCEPT !.attributes = bag, !.updated_at = CurrentTimestamp(t)]]
    ELSE Extend(es, entity_id,
            [name |-> name, attributes |-> bag,
             created_at |-> CurrentTimestamp(t), updated_at |-> CurrentTimestamp(t)])

TrackEntity(entity_id, attributes, d) ==
    /\ Call(d)
    /\ entities' = TrackEntityResult(entities, entity_id, attributes, now + d)
    /\ ret' = [op |-> "track_entity", entity_id |-> entity_id,
               attributes |-> attributes]
    /\ durable' = facts
    /\ UNCHANGED <<facts, facts_fts, seq, lessons>>

\* update_entity(): the merge of the attributes into the stored ones, or
\* track_entity() when the entity is not there.
UpdateEntityResult(es, entity_id, attributes, t) ==
    IF entity_id \in DOMAIN es
    THEN LET existing == JsonLoadsDict(es[entity_id].attributes) IN
         [es EXCEPT ![entity_id] =
            [@ EXCEPT !.attributes = JsonDumpsDict(DictUpdate(existing, attributes)),
                      !.updated_at = CurrentTimestamp(t)]]
    ELSE TrackEntityResult(es, entity_id, attributes, t)

UpdateEntity(entity_id, attributes, d) ==
    /\ Call(d)
    /\ entities' = UpdateEntityResult(entities, entity_id, attributes, now + d)
    /\ ret' = [op |-> "update_entity", entity_id |-> entity_id,
               attributes |-> attributes]
    /\ durable' = facts
    /\ UNCHANGED <<facts, facts_fts, seq, lessons>>

\* update_entity() on handle h, up to its SELECT: the row is read outside
\* any transaction, and an entity that is not there goes to track_entity().
UpdateEntityRead(h, entity_id, attributes, d) ==
    /\ calls < MaxCalls
    /\ conn = "open"
    /\ ~pending[h].active
    /\ calls' = calls + 1
    /\ now' = now + d
    /\ IF entity_id \in DOMAIN entities
       THEN /\ pending' = [pending EXCEPT ![h] =
                              [active |-> TRUE, entity_id |-> entity_id,
                               attributes |-> attributes,
                               existing |-> JsonLoadsDict(entities[entity_id].attributes)]]
            /\ ret' = [op |-> "update_entity.select", handle |-> h,
                       entity_id |-> entity_id, attributes |-> attributes]
            /\ UNCHANGED <<entities, durable>>
       ELSE /\ entities' = TrackEntityResult(entities, entity_id, attributes, now + d)
            /\ ret' = [op |-> "update_entity", handle |-> h,
                       entity_id |-> entity_id, attributes |-> attributes]
            /\ durable' = facts
            /\ UNCHANGED pending
    /\ UNCHANGED <<facts, facts_fts, seq, lessons, conn, scope>>

\* update_entity() on handle h, from existing.update(attributes) to the
\* commit of its UPDATE; an UPDATE of an id that is not there changes no row.
UpdateEntityWrite(h) ==
    /\ pending[h].active
    /\ LET p == pending[h] IN
       /\ entities' =
             [id \in DOMAIN entities |->
                IF id = p.entity_id
                THEN [entities[id] EXCEPT
                        !.attributes = JsonDumpsDict(DictUpdate(p.existing, p.attributes)),
                        !.updated_at = CurrentTimestamp(now)]
                ELSE entities[id]]
       /\ ret' = [op |-> "update_entity", handle |-> h,
                  entity_id |-> p.entity_id, attributes |-> p.attributes]
    /\ pending' = [pending EXCEPT ![h] = NoRead]
    /\ durable' = facts
    /\ UNCHANGED <<facts, facts_fts, seq, lessons, now, calls, conn, scope>>

\* SELECT * FROM facts WHERE entity_id = ? AND superseded_by IS NULL
EntityFactIds(f, entity_id) ==
    { id \in DOMAIN f : f[id].entity_id = entity_id /\ f[id].superseded_by = NULL }

\* ORDER BY created_at DESC: rows of one created_at come in any order.
EntityFactRows(f, entity_id) ==
    LET sel == EntityFactIds(f, entity_id)
        n == Cardinality(sel) IN
    { rows \in [1..n -> sel] :
        /\ \A i, j \in 1..n : rows[i] = rows[j] => i = j
        /\ \A i, j \in 1..n :
              i < j => ~TextLess(f[rows[i]].created_at, f[rows[j]].created_at) }

EntityFactView(id, row) ==
    [id |-> id, content |-> row.content, tags |-> JsonLoadsList(row.tags),
     confidence |-> row.confidence]

EntityView(es, entity_id) ==
    [id |-> entity_id, name |-> es[entity_id].name,
     attributes |-> JsonLoadsDict(es[entity_id].attributes),
     created_at |-> es[entity_id].created_at,
     updated_at |-> es[entity_id].updated_at]

\* A get_entity that tracks the entity it does not find.
GetEntityCreating(entity_id, include_facts, d) ==
    /\ Call(d)
    /\ entities' = TrackEntityResult(entities, entity_id, << >>, now + d)
    /\ ret' = [op |-> "get_entity", entity_id |-> entity_id,
               result |-> IF entity_id \in DOMAIN entities
                          THEN EntityView(entities, entity_id) ELSE None]
    /\ durable' = facts
    /\ UNCHANGED <<facts, facts_fts, seq, lessons>>

GetEntity(entity_id, include_facts, d) ==
    /\ Call(d)
    /\ IF entity_id \notin DOMAIN entities
       THEN ret' = [op |-> "get_entity", entity_id |-> entity_id, result |-> None]
       ELSE IF include_facts
       THEN \E rows \in EntityFactRows(facts, entity_id) :
              ret' = [op |-> "get_entity", entity_id |-> entity_id,
                      result |-> EntityView(entities, entity_id),
                      facts |-> [i \in 1..Len(rows) |->
                                    EntityFactView(rows[i], facts[rows[i]])]]
       ELSE ret' = [op |-> "get_entity", entity_id |-> entity_id,
                    result |-> EntityView(entities, entity_id)]
    /\ UNCHANGED <<facts, facts_fts, seq, durable, lessons, entities>>

(***************************************************************************)
(* The handle: close(), and the store as a context manager.                *)
(***************************************************************************)
\* The methods that start with self.conn.cursor().
Methods ==
    { "remember", "recall", "supersede", "learn", "get_lessons", "track_entity",
      "update_entity", "get_entity", "cleanup", "stats" }
\* The exception a with-block is left with; None is a normal return.
Exceptions == { None, "ValueError" }

\* A method called on the closed handle: self.conn.cursor() raises
\* sqlite3.ProgrammingError before any statement runs.
ClosedCall(op, d) ==
    /\ calls < MaxCalls
    /\ conn = "closed"
    /\ calls' = calls + 1
    /\ now' = now + d
    /\ ret' = [op |-> op, raised |-> TRUE]
    /\ UNCHANGED <<facts, facts_fts, seq, durable, lessons, entities,
                   conn, scope, pending>>

\* close(): self.conn.close(), which may be repeated.
Close ==
    /\ conn' = "closed"
    /\ ret' = [op |-> "close"]
    /\ UNCHANGED <<facts, facts_fts, seq, durable, lessons, entities, now, calls,
                   scope, pending>>

\* __enter__(): return self
Enter ==
    /\ scope = "outside"
    /\ scope' = "inside"
    /\ ret' = [op |-> "__enter__"]
    /\ UNCHANGED <<facts, facts_fts, seq, durable, lessons, entities, now, calls,
                   conn, pending>>

\* An __exit__ that leaves the handle open when the block raised.
ExitOnReturnOnly(exc) ==
    /\ scope = "inside"
    /\ scope' = IF exc = None THEN "returned" ELSE "raised"
    /\ conn' = IF exc = None THEN "closed" ELSE conn
    /\ ret' = [op |-> "__exit__", exc |-> exc, result |-> None]
    /\ UNCHANGED <<facts, facts_fts, seq, durable, lessons, entities, now, calls,
                   pending>>

\* __exit__(exc_type, exc_val, exc_tb): self.close(); it returns None, so
\* the exception of the block propagates.
Exit(exc) ==
    /\ scope = "inside"
    /\ scope' = IF exc = None THEN "returned" ELSE "raised"
    /\ conn' = "closed"
    /\ ret' = [op |-> "__exit__", exc |-> exc, result |-> None]
    /\ UNCHANGED <<facts, facts_fts, seq, durable, lessons, entities, now, calls,
                   pending>>

(***************************************************************************)
(* Properties.                                                             *)
(***************************************************************************)
Normalized(content) == Strip(Lower(content))

Live(f) == { id \in DOMAIN f : f[id].superseded_by = NULL }

\* The clock tick a stored timestamp stands for.
TimestampTicks(ts) == ts[1] * TicksPerDay + ts[3]

ResultIds(views) == { views[i].id : i \in DOMAIN views }

\* C1: remember(c1) followed by remember(c2), with c1 and c2 equal after
\* lower-casing and trimming, returns the same id both times, adds exactly 1
\* to that row's access_count and leaves the number of rows as it was.
C1_IdempotentRemember ==
    [][ ( /\ ret.op = "remember"
          /\ ret'.op = "remember"
          /\ Normalized(ret.fact) = Normalized(ret'.fact) )
        => ( /\ ret'.result = ret.result
             /\ ret.result \in DOMAIN facts
             /\ DOMAIN facts' = DOMAIN facts
             /\ facts'[ret.result].access_count
                  = facts[ret.result].access_count + 1 ) ]_vars

\* Two remembers of contents that differ in case and surrounding whitespace
\* have hit one row.
C1_Witness ==
    /\ calls = 2
    /\ ret.op = "remember"
    /\ DOMAIN facts = {ret.result}
    /\ facts[ret.result].content # ret.fact
    /\ facts[ret.result].access_count = 1

\* C2: after supersede(old_id, new_text) on an existing fact old_id returns
\* new_id, the row old_id still exists with superseded_by = new_id, no recall
\* returns old_id, and a recall whose query matches new_text returns new_id.
C2_SupersedePreservesHistory ==
    [][ (ret'.op = "supersede" /\ ret'.old_fact_id \in DOMAIN facts)
        => LET old_id == ret'.old_fact_id
               new_id == ret'.result IN
           /\ old_id \in DOMAIN facts'
           /\ facts'[old_id].superseded_by = new_id
           /\ \A q \in Queries, l \in Limits :
                \A rows \in RecallRows(facts', facts_fts', q, l) :
                   old_id \notin Range(rows)
           /\ \E q \in Queries :
                /\ Tokens(q) \subseteq Tokens(ret'.fact)
                /\ \E rows \in RecallRows(facts', facts_fts', q, 10) :
                     new_id \in Range(rows) ]_vars

\* C3: recall never returns a fact whose superseded_by is set.
C3_RecallExcludesSuperseded ==
    ret.op = "recall"
    => \A i \in DOMAIN ret.result :
          /\ ret.result[i].id \in DOMAIN facts
          /\ facts[ret.result[i].id].superseded_by = NULL

\* A recall has returned a live fact while a superseded fact matched its query.
C3_Witness ==
    /\ ret.op = "recall"
    /\ ret.result # <<>>
    /\ \E id \in DOMAIN facts :
          /\ facts[id].superseded_by # NULL
          /\ FtsMatch(facts_fts[id], ret.query)

\* C5: cleanup removes exactly the live facts whose accessed_at is strictly
\* older than the cutoff and whose access_count is at most min_access_count,
\* and returns the number of rows removed.
C5_CleanupPredicate ==
    [][ ret'.op = "cleanup"
        => LET cutoff == Cutoff(now', ret'.max_age_days)
               stale == { id \in DOMAIN facts :
                            /\ facts[id].superseded_by = NULL
                            /\ TimestampTicks(facts[id].accessed_at) < cutoff
                            /\ facts[id].access_count <= ret'.min_access_count } IN
           /\ DOMAIN facts' = DOMAIN facts \ stale
           /\ \A id \in DOMAIN facts' : facts'[id] = facts[id]
           /\ ret'.result = Cardinality(stale) ]_vars

\* C6: recall returns at most limit facts, adds exactly 1 to the access_count
\* of every fact it returns and refreshes its accessed_at, and leaves every
\* other fact as it was.
C6_RecallBumpsWhatItReturns ==
    [][ ret'.op = "recall"
        => LET ids == ResultIds(ret'.result) IN
           /\ Len(ret'.result) <= ret'.limit
           /\ Cardinality(ids) = Len(ret'.result)
           /\ DOMAIN facts' = DOMAIN facts
           /\ \A id \in DOMAIN facts :
                IF id \in ids
                THEN /\ facts'[id].access_count = facts[id].access_count + 1
                     /\ facts'[id].accessed_at = CurrentTimestamp(now')
                     /\ facts'[id] = [facts[id] EXCEPT
                                        !.access_count = facts'[id].access_count,
                                        !.accessed_at = facts'[id].accessed_at]
                ELSE facts'[id] = facts[id] ]_vars

\* A recall with limit 1 has returned one fact and left alone another live
\* fact that matches its query.
C6_Witness ==
    /\ ret.op = "recall"
    /\ ret.limit = 1
    /\ Len(ret.result) = 1
    /\ \E id \in Live(facts) \ ResultIds(ret.result) :
          /\ FtsMatch(facts_fts[id], ret.query)
          /\ facts[id].access_count = 0
    /\ facts[ret.result[1].id].access_count = 1

\* C7: the view recall returns for a fact reports the incremented
\* access_count, and the number of facts stats() reports is unchanged.
C7_ViewCarriesIncrementedCount ==
    [][ ret'.op = "recall"
        => /\ \A i \in DOMAIN ret'.result :
                ret'.result[i].access_count
                  = facts[ret'.result[i].id].access_count + 1
           /\ StatsResult(facts', lessons', entities').facts
                = StatsResult(facts, lessons, entities).facts ]_vars

\* C8: remember returns an existing row's id, bumping it, only when a live
\* row has the content's hash; otherwise it inserts a new row with
\* access_count 0 and returns that row's id.
C8_RememberReusesOnlyLiveRows ==
    [][ ret'.op = "remember"
        => LET live == { id \in Live(facts) :
                           Normalized(facts[id].content) = Normalized(ret'.fact) }
               id == ret'.result IN
           IF live # {}
           THEN /\ id \in live
                /\ facts'[id].access_count = facts[id].access_count + 1
                /\ DOMAIN facts' = DOMAIN facts
           ELSE /\ id \notin DOMAIN facts
                /\ DOMAIN facts' = DOMAIN facts \cup {id}
                /\ facts'[id].access_count = 0
                /\ facts'[id].content = ret'.fact ]_vars

\* C9: no two fact rows, live or superseded, have the same lower-cased,
\* trimmed content.
C9_HashUnique ==
    \A i, j \in DOMAIN facts :
        Normalized(facts[i].content) = Normalized(facts[j].content) => i = j

\* A remember or supersede has been given the content of a superseded row,
\* another row being there.
C9_Witness ==
    /\ ret.op \in {"remember", "supersede"}
    /\ Cardinality(DOMAIN facts) = 2
    /\ \E id \in DOMAIN facts :
          /\ facts[id].superseded_by # NULL
          /\ Normalized(facts[id].content) = Normalized(ret.fact)
          /\ facts[id].content # ret.fact

\* C10: every fact whose superseded_by is set references a fact row whose
\* created_at is strictly later than its own.
C10_SupersessionPointsForward ==
    \A id \in DOMAIN facts :
        facts[id].superseded_by # NULL
        => /\ facts[id].superseded_by \in DOMAIN facts
           /\ TextLess(facts[id].created_at,
                       facts[facts[id].superseded_by].created_at)

\* The age-and-access predicate of cleanup at tick t: accessed before the
\* cutoff, and no more than min_access_count times.
MeetsCleanupPredicate(row, t, max_age_days, min_access_count) ==
    /\ TimestampTicks(row.accessed_at) < Cutoff(t, max_age_days)
    /\ row.access_count <= min_access_count

\* C12, as stated: cleanup applies its predicate to all rows, so a
\* superseded fact that meets it is removed just like a live one.
C12_CleanupUniformOriginal ==
    [][ ret'.op = "cleanup"
        => \A id \in DOMAIN facts :
              ( /\ facts[id].superseded_by # NULL
                /\ MeetsCleanupPredicate(facts[id], now', ret'.max_age_days,
                                         ret'.min_access_count) )
                 => id \notin DOMAIN facts' ]_vars

\* C12, amended: cleanup deletes live rows only: every row it removes was
\* live, and a superseded row stays as it is whether or not it meets the
\* age-and-access predicate.
C12_CleanupLiveOnly ==
    [][ ret'.op = "cleanup"
        => /\ \A id \in DOMAIN facts \ DOMAIN facts' : facts[id].superseded_by = NULL
           /\ \A id \in DOMAIN facts :
                 facts[id].superseded_by # NULL
                    => id \in DOMAIN facts' /\ facts'[id] = facts[id] ]_vars

\* A cleanup has removed a row and has left a superseded row that meets its
\* predicate.
C12_Witness ==
    /\ ret.op = "cleanup"
    /\ ret.result >= 1
    /\ \E id \in DOMAIN facts :
          /\ facts[id].superseded_by # NULL
          /\ MeetsCleanupPredicate(facts[id], now, ret.max_age_days,
                                   ret.min_access_count)

\* C13: the lifecycle of a fact is one-way: a row whose superseded_by is
\* set has it set after every operation that leaves the row in the store.
C13_LifecycleOneWay ==
    [][ \A id \in DOMAIN facts \cap DOMAIN facts' :
           facts[id].superseded_by # NULL => facts'[id].superseded_by # NULL ]_vars

\* A remember of the content of a superseded fact has found and bumped the
\* superseded row, which is still superseded.
C13_Witness ==
    /\ ret.op = "remember"
    /\ ret.result \in DOMAIN facts
    /\ facts[ret.result].superseded_by # NULL
    /\ facts[ret.result].access_count >= 1

\* C14: after every committed operation the index entries are those of the
\* fact rows: the same ids, and for each id the indexed content and tags are
\* the words of the row's content and tags.
C14_IndexInSync ==
    /\ DOMAIN facts_fts = DOMAIN facts
    /\ \A id \in DOMAIN facts :
          /\ facts_fts[id].content = Tokens(facts[id].content)
          /\ facts_fts[id].tags = Tokens(facts[id].tags)

\* A cleanup has deleted a row and left another one, which is indexed.
C14_Witness ==
    /\ ret.op = "cleanup"
    /\ ret.result >= 1
    /\ seq >= 2
    /\ DOMAIN facts # {}
    /\ DOMAIN facts_fts = DOMAIN facts

\* C26: fact ids are monotonic and never reused: the highest id given so far
\* never goes down and bounds the ids in the table, and a remember (alone or
\* inside supersede) that inserts a row returns an id above it, so above
\* every id given before, also after cleanup deleted the rows with the
\* highest ids; the inserted row has access_count 0.
C26_IdsMonotonic ==
    [][ /\ seq' >= seq
        /\ \A id \in DOMAIN facts' : id <= seq'
        /\ ( ret'.op \in {"remember", "supersede"} /\ ret'.result \notin DOMAIN facts )
              => /\ ret'.result > seq
                 /\ \A id \in DOMAIN facts : ret'.result > id
                 /\ facts'[ret'.result].access_count = 0 ]_vars

\* After a remember and a cleanup that deleted its row, the row with the
\* highest id, a remember has inserted a row with id 2 and access_count 0.
C26_Witness ==
    /\ calls = 3
    /\ ret.op = "remember"
    /\ ret.result = 2
    /\ DOMAIN facts = {2}
    /\ facts[2].access_count = 0

\* C27: supersede(old_id, new_content) with an old_id that names no row
\* returns the id of the fact of new_content, which is in the store, and
\* marks no row as superseded; with an old_id that is superseded it points
\* superseded_by of old_id to the id it returns.
C27_SupersedeUnvalidated ==
    [][ ret'.op = "supersede"
        => LET old == ret'.old_fact_id IN
           /\ ret'.result \in DOMAIN facts'
           /\ old \notin DOMAIN facts
                 => \A id \in DOMAIN facts' :
                       facts'[id].superseded_by
                          = IF id \in DOMAIN facts THEN facts[id].superseded_by ELSE NULL
           /\ ( old \in DOMAIN facts /\ facts[old].superseded_by # NULL )
                 => facts'[old].superseded_by = ret'.result ]_vars

\* C29: a remember that hits a row changes the access bookkeeping only: the
\* row keeps its content, tags, confidence, entity_id, created_at and
\* superseded_by (the tags, confidence and entity of the call are
\* discarded), no other row changes and the index is as it was.
C29_DuplicateRememberFrame ==
    [][ ( ret'.op = "remember" /\ ret'.result \in DOMAIN facts )
        => LET id == ret'.result IN
           /\ DOMAIN facts' = DOMAIN facts
           /\ facts'[id] = [facts[id] EXCEPT !.accessed_at = facts'[id].accessed_at,
                                             !.access_count = facts'[id].access_count]
           /\ \A other \in DOMAIN facts \ {id} : facts'[other] = facts[other]
           /\ facts_fts' = facts_fts ]_vars

\* A remember has hit a row whose stored tags are not the tags of the call.
C29_Witness ==
    /\ ret.op = "remember"
    /\ ret.result \in DOMAIN facts
    /\ facts[ret.result].content # ret.fact
    /\ facts[ret.result].access_count >= 1
    /\ JsonLoadsList(facts[ret.result].tags) # TagsOf(ret.fact)

\* Following superseded_by from id reaches a live row of f in at most n
\* steps.
RECURSIVE LeadsToLive(_, _, _)
LeadsToLive(f, id, n) ==
    /\ id \in DOMAIN f
    /\ \/ f[id].superseded_by = NULL
       \/ n > 0 /\ LeadsToLive(f, f[id].superseded_by, n - 1)

\* C30: following superseded_by from a superseded fact reaches, in finitely
\* many steps, a fact that is in the store and is live: there is no cycle,
\* no self-reference and no reference to a deleted row.
C30_SupersededLeadsToLive ==
    \A id \in DOMAIN facts :
        facts[id].superseded_by # NULL
        => LeadsToLive(facts, id, Cardinality(DOMAIN facts))

(***************************************************************************)
(* Properties of the entity registry, under EntitySpec.                    *)
(***************************************************************************)
StoredAttributes(es, entity_id) == DictMap(JsonLoadsDict(es[entity_id].attributes))

\* The merge of update_entity on an entity that is there.
MergedInto(old, new, attributes) ==
    /\ DOMAIN new = DOMAIN old \cup DictKeys(attributes)
    /\ \A k \in DictKeys(attributes) : new[k] = DictGet(attributes, k, None)
    /\ \A k \in DOMAIN old \ DictKeys(attributes) : new[k] = old[k]

\* C4, as stated: update_entity(id, A) merges A into the stored attributes,
\* and creates an absent entity with exactly the attributes A.
C4_EntityMergeOriginal ==
    [][ ret'.op = "update_entity"
        => LET id == ret'.entity_id
               A == ret'.attributes IN
           /\ id \in DOMAIN entities'
           /\ IF id \in DOMAIN entities
              THEN MergedInto(StoredAttributes(entities, id),
                              StoredAttributes(entities', id), A)
              ELSE StoredAttributes(entities', id) = DictMap(A) ]_vars

\* C4, amended: update_entity(id, A) merges A into the stored attributes of
\* an entity that is there; an absent entity is created by track_entity: its
\* name is A's name (id when A has none) and its attributes are A without
\* the name key.
C4_EntityMerge ==
    [][ ret'.op = "update_entity"
        => LET id == ret'.entity_id
               A == ret'.attributes IN
           /\ id \in DOMAIN entities'
           /\ \A other \in DOMAIN entities \ {id} :
                 other \in DOMAIN entities' /\ entities'[other] = entities[other]
           /\ IF id \in DOMAIN entities
              THEN /\ MergedInto(StoredAttributes(entities, id),
                                 StoredAttributes(entities', id), A)
                   /\ entities'[id].name = entities[id].name
              ELSE /\ StoredAttributes(entities', id) = DictMap(DictPop(A, "name"))
                   /\ entities'[id].name = DictGet(A, "name", id) ]_vars

\* update_entity with x:1, then y:2, then x:3 has ended with x:3 and y:2.
C4_Witness ==
    /\ calls = 3
    /\ ret.op = "update_entity"
    /\ ret.attributes = << <<"x", "3">> >>
    /\ ret.entity_id \in DOMAIN entities
    /\ JsonLoadsDict(entities[ret.entity_id].attributes)
         = << <<"x", "3">>, <<"y", "2">> >>
    /\ StoredAttributes(entities, ret.entity_id) = ("x" :> "3") @@ ("y" :> "2")


\* C17: after track_entity(id, A) on a new or an already tracked id, when A
\* has a name key the name field is A's name and the attribute bag is A
\* without the name key; when A has no name key and the entity is new, the
\* name is id.
C17_TrackEntityName ==
    [][ ret'.op = "track_entity"
        => LET id == ret'.entity_id
               A == ret'.attributes IN
           /\ id \in DOMAIN entities'
           /\ "name" \in DictKeys(A)
                 => /\ entities'[id].name = DictGet(A, "name", id)
                    /\ StoredAttributes(entities', id) = DictMap(DictPop(A, "name"))
           /\ ("name" \notin DictKeys(A) /\ id \notin DOMAIN entities)
                 => entities'[id].name = id ]_vars

\* C18, as stated: track_entity(id, A) on an already tracked id leaves one
\* entity per id and the number of entities as they were, keeps created_at,
\* and replaces the whole attribute bag with A.
C18_TrackEntityUpsertOriginal ==
    [][ ( ret'.op = "track_entity" /\ ret'.entity_id \in DOMAIN entities )
        => LET id == ret'.entity_id IN
           /\ DOMAIN entities' = DOMAIN entities
           /\ entities'[id].created_at = entities[id].created_at
           /\ StoredAttributes(entities', id) = DictMap(ret'.attributes) ]_vars

\* C18, amended: track_entity(id, A) on an already tracked id leaves the set
\* of entity ids and every other entity as they were, keeps created_at, and
\* replaces the whole attribute bag with A without its name key: a stored
\* key that A does not supply is dropped.
C18_TrackEntityUpsert ==
    [][ ( ret'.op = "track_entity" /\ ret'.entity_id \in DOMAIN entities )
        => LET id == ret'.entity_id IN
           /\ DOMAIN entities' = DOMAIN entities
           /\ \A other \in DOMAIN entities \ {id} : entities'[other] = entities[other]
           /\ entities'[id].created_at = entities[id].created_at
           /\ StoredAttributes(entities', id)
                 = DictMap(DictPop(ret'.attributes, "name")) ]_vars

\* A track_entity on a tracked entity, a tick after it was created, has
\* dropped the stored key x that its attributes did not supply.
C18_Witness ==
    /\ ret.op = "track_entity"
    /\ ret.entity_id \in DOMAIN entities
    /\ "x" \notin DictKeys(ret.attributes)
    /\ "x" \notin DOMAIN StoredAttributes(entities, ret.entity_id)
    /\ "y" \in DOMAIN StoredAttributes(entities, ret.entity_id)
    /\ entities[ret.entity_id].created_at # entities[ret.entity_id].updated_at
    /\ calls = 2

\* C28: after any sequence of track_entity and update_entity calls the
\* stored attribute bag of no entity has a name key, and neither have the
\* attributes get_entity returns.
C28_NoNameInBag ==
    /\ \A id \in DOMAIN entities : "name" \notin DOMAIN StoredAttributes(entities, id)
    /\ ( ret.op = "get_entity" /\ ret.entity_id \in DOMAIN entities )
          => "name" \notin DictKeys(ret.result.attributes)

(***************************************************************************)
(* Properties of the whole store, under StoreSpec.                         *)
(***************************************************************************)
\* C11: a fact row is removed only by cleanup: every row that is there
\* before a remember, recall, supersede, learn, get_lessons, track_entity,
\* update_entity, get_entity or stats call is there after it, and the row a
\* supersede marks stays in the store.
C11_OnlyCleanupRemoves ==
    [][ /\ ( ret'.op # "cleanup" => \A id \in DOMAIN facts : id \in DOMAIN facts' )
        /\ ( (ret'.op = "supersede" /\ ret'.old_fact_id \in DOMAIN facts)
               => ret'.old_fact_id \in DOMAIN facts' ) ]_vars

\* A supersede has marked a row, which is still in the store.
C11_Witness ==
    /\ ret.op = "supersede"
    /\ ret.old_fact_id \in DOMAIN facts
    /\ ret.result # ret.old_fact_id
    /\ facts[ret.old_fact_id].superseded_by = ret.result

\* C19: get_entity(id) for an id that is not tracked returns the absent
\* result and leaves facts, index, lessons and entities as they were: it
\* does not create the entity.
C19_GetEntityNotFound ==
    [][ ( ret'.op = "get_entity" /\ ret'.entity_id \notin DOMAIN entities )
        => /\ ret'.result = None
           /\ "facts" \notin DOMAIN ret'
           /\ ret'.entity_id \notin DOMAIN entities'
           /\ UNCHANGED <<facts, facts_fts, durable, lessons, entities>> ]_vars

\* get_entity has returned absent for an untracked id in a store that holds
\* a fact, a lesson and another entity.
C19_Witness ==
    /\ ret.op = "get_entity"
    /\ ret.entity_id \notin DOMAIN entities
    /\ ret.result = None
    /\ DOMAIN entities # {}
    /\ DOMAIN facts # {}
    /\ Len(lessons) >= 1

\* C20: get_entity(id, include_facts = true) on a tracked entity returns
\* exactly the live facts linked to id, newest first: of two returned facts
\* the one remembered later (the one with the higher id) comes earlier.
C20_EntityFactsNewestFirst ==
    [][ ( ret'.op = "get_entity" /\ "facts" \in DOMAIN ret' )
        => LET fs == ret'.facts IN
           /\ ResultIds(fs) = EntityFactIds(facts, ret'.entity_id)
           /\ Len(fs) = Cardinality(EntityFactIds(facts, ret'.entity_id))
           /\ \A i, j \in DOMAIN fs : i < j => fs[i].id > fs[j].id ]_vars

\* The lessons that satisfy the filters of get_lessons as the claims state
\* them: context is a substring of the lesson's context, outcome is equal.
SatisfiesFilters(row, context, outcome) ==
    /\ context # <<>> => IsSubstring(context, row.context)
    /\ outcome # None => row.outcome = outcome

\* C21: get_lessons(context, outcome, limit) changes no stored state and
\* returns at most limit lessons that satisfy the filters, newest first: of
\* two lessons that satisfy the filters the one learned later (the one with
\* the higher id) comes earlier, and is the one kept when the limit cuts.
C21_GetLessonsNewestFirst ==
    [][ ret'.op = "get_lessons"
        => LET res == ret'.result
               sat == { i \in DOMAIN lessons :
                          SatisfiesFilters(lessons[i], ret'.context, ret'.outcome) } IN
           /\ UNCHANGED <<facts, facts_fts, durable, lessons, entities>>
           /\ Len(res) <= ret'.limit
           /\ ResultIds(res) \subseteq sat
           /\ \A i, j \in DOMAIN res : i < j => res[i].id > res[j].id
           /\ \A x \in sat \ ResultIds(res) :
                 /\ Len(res) = ret'.limit
                 /\ \A i \in DOMAIN res : res[i].id > x ]_vars

\* C22: every learn adds exactly one lesson, with an id no lesson has, the
\* four fields given and applied_count 0, also when a lesson with the same
\* four fields is there, and leaves every lesson that is there as it is.
C22_LearnAppends ==
    [][ ret'.op = "learn"
        => LET id == ret'.result IN
           /\ id \notin DOMAIN lessons
           /\ DOMAIN lessons' = DOMAIN lessons \cup {id}
           /\ lessons'[id].action = ret'.args.action
           /\ lessons'[id].context = ret'.args.context
           /\ lessons'[id].outcome = ret'.args.outcome
           /\ lessons'[id].insight = ret'.args.insight
           /\ lessons'[id].applied_count = 0
           /\ \A i \in DOMAIN lessons : lessons'[i] = lessons[i] ]_vars

\* A learn has added a lesson whose four fields are those of an earlier one.
C22_Witness ==
    /\ ret.op = "learn"
    /\ ret.result = Len(lessons)
    /\ \E i \in 1..(Len(lessons) - 1) :
          /\ lessons[i].action = ret.args.action
          /\ lessons[i].context = ret.args.context
          /\ lessons[i].outcome = ret.args.outcome
          /\ lessons[i].insight = ret.args.insight

\* What stats() would return before and after a step.
StatsBefore == StatsResult(facts, lessons, entities)
StatsAfter == StatsResult(facts', lessons', entities')

\* The content has the hash of no row of f.
IsNewContent(f, fact) == \A id \in DOMAIN f : f[id].hash # Normalized(fact)

\* stats() returns the number of live facts, of lessons and of entities.
StatsCountsStore ==
    ret'.op = "stats"
    => /\ ret'.result.facts = Cardinality(Live(facts))
       /\ ret'.result.lessons = Cardinality(DOMAIN lessons)
       /\ ret'.result.entities = Cardinality(DOMAIN entities)

\* cleanup lowers the facts count of stats by its return value.
CleanupLowersStats ==
    ret'.op = "cleanup" => StatsAfter.facts = StatsBefore.facts - ret'.result

\* C23, as stated: stats counts the live facts, the lessons and the
\* entities; a supersede onto new content leaves the facts count as it was,
\* and cleanup lowers it by its return value.
C23_StatsConsistentOriginal ==
    [][ /\ StatsCountsStore
        /\ CleanupLowersStats
        /\ ( ret'.op = "supersede" /\ IsNewContent(facts, ret'.fact) )
              => StatsAfter.facts = StatsBefore.facts ]_vars

\* C23, amended: stats counts the live facts, the lessons and the entities;
\* a supersede onto new content leaves the facts count as it was when old_id
\* names a live fact or is the id the new row gets, and raises it by one
\* otherwise; cleanup lowers it by its return value.
C23_StatsConsistent ==
    [][ /\ StatsCountsStore
        /\ CleanupLowersStats
        /\ ( ret'.op = "supersede" /\ IsNewContent(facts, ret'.fact) )
              => StatsAfter.facts
                   = IF ret'.old_fact_id \in Live(facts) \cup {ret'.result}
                     THEN StatsBefore.facts ELSE StatsBefore.facts + 1 ]_vars

\* stats has counted one live fact and one lesson in a store of two fact
\* rows, one of them superseded.
C23_Witness ==
    /\ ret.op = "stats"
    /\ ret.result.facts = 1
    /\ ret.result.lessons = 1
    /\ Cardinality(DOMAIN facts) = 2

(***************************************************************************)
(* Properties of the handle, under ScopeSpec.                              *)
(***************************************************************************)
\* C24: leaving the scope, by a return or by an error raised inside it,
\* closes the handle; a closed handle stays closed, and every method called
\* on it raises and leaves the stored data as they were.
C24_ScopedAcquisition ==
    [][ /\ ( scope = "inside" /\ scope' # "inside" ) => conn' = "closed"
        /\ conn = "closed"
              => /\ conn' = "closed"
                 /\ UNCHANGED <<facts, facts_fts, seq, durable, lessons, entities>>
                 /\ ret'.op \in Methods => "raised" \in DOMAIN ret' ]_vars

\* The scope was left by an error, and a remember on the handle has raised,
\* the fact stored inside the scope being as it was.
C24_Witness ==
    /\ scope = "raised"
    /\ conn = "closed"
    /\ ret.op = "remember"
    /\ "raised" \in DOMAIN ret
    /\ DOMAIN facts # {}

(***************************************************************************)
(* Properties of two handles on one store, under ConcurrentSpec.           *)
(***************************************************************************)
\* C25: update_entity is atomic with respect to the writes of other
\* handles: when an update_entity on an entity that is there completes, the
\* attribute bag is the merge of its attributes into the bag stored just
\* before it wrote, so the keys another handle wrote in between are there.
C25_NoLostUpdate ==
    [][ ( ret'.op = "update_entity" /\ ret'.entity_id \in DOMAIN entities )
        => MergedInto(StoredAttributes(entities, ret'.entity_id),
                      StoredAttributes(entities', ret'.entity_id),
                      ret'.attributes) ]_vars

(***************************************************************************)
(* Properties of calls that raise part-way, under FaultSpec.               *)
(***************************************************************************)
\* C15: supersede commits as a unit: whether it returns or raises part-way,
\* the committed table after it either is the one before it (none of its
\* effects) or has old_id marked superseded by the row of the replacement
\* content (all of them).
C15_SupersedeCommitsAsUnit ==
    [][ ( ret'.op = "supersede" /\ ret'.old_fact_id \in DOMAIN durable )
        => \/ durable' = durable
           \/ \E n \in DOMAIN durable' :
                 /\ durable'[n].hash = HashContent(ret'.fact)
                 /\ durable'[ret'.old_fact_id].superseded_by = n ]_vars

\* C16: an access is counted in the committed table only for a fact the call
\* returns: when a call commits a higher access_count of a row, the call is a
\* recall that returns the row, or a remember or supersede of the row's
\* content; no call commits an increment that a recall made before it raised.
C16_RecallBumpAtomic ==
    [][ \A id \in DOMAIN durable \cap DOMAIN durable' :
           durable'[id].access_count # durable[id].access_count
              => \/ /\ ret'.op = "recall"
                    /\ "result" \in DOMAIN ret'
                    /\ id \in ResultIds(ret'.result)
                 \/ /\ ret'.op \in {"remember", "supersede"}
                    /\ durable[id].hash = HashContent(ret'.fact) ]_vars

Init ==
    /\ facts = << >>
    /\ facts_fts = << >>
    /\ seq = 0
    /\ durable = << >>
    /\ lessons = << >>
    /\ entities = << >>
    /\ now = 0
    /\ calls = 0
    /\ ret = [op |-> "init"]
    /\ conn = "open"
    /\ scope = "outside"
    /\ pending = NoPending

Next ==
    \/ \E fact \in Contents, c \in Confidences, e \in EntityArgs, d \in Delays :
          Remember(fact, TagsOf(fact), c, e, d)
    \/ \E query \in Queries, limit \in Limits, d \in Delays : Recall(query, limit, d)
    \/ \E old \in OldIds, fact \in Contents, c \in Confidences,
          e \in EntityArgs, d \in Delays : Supersede(old, fact, TagsOf(fact), c, e, d)
    \/ \E age \in MaxAges, m \in MinAccessCounts, d \in Delays : Cleanup(age, m, d)
    \/ \E d \in Delays : Stats(d)

Spec == Init /\ [][Next]_vars

\* The entity registry alone.
EntityNext ==
    \/ \E id \in EntityIds, a \in AttrArgs, d \in Delays : TrackEntity(id, a, d)
    \/ \E id \in EntityIds, a \in AttrArgs, d \in Delays : UpdateEntity(id, a, d)
    \/ \E id \in EntityIds, i \in IncludeFacts, d \in Delays : GetEntity(id, i, d)

EntitySpec == Init /\ [][EntityNext]_vars

\* Every operation of the store.
StoreNext ==
    \/ \E fact \in StoreContents, e \in StoreEntityArgs, d \in Delays :
          Remember(fact, TagsOf(fact), 1, e, d)
    \/ Recall(<<"a">>, 10, 0)
    \/ \E old \in StoreOldIds, fact \in StoreContents :
          Supersede(old, fact, TagsOf(fact), 1, None, 0)
    \/ \E m \in MinAccessCounts, d \in Delays : Cleanup(0, m, d)
    \/ Stats(0)
    \/ \E a \in LessonArgs, d \in Delays : Learn(a, d)
    \/ \E c \in ContextArgs, o \in OutcomeArgs, limit \in Limits : GetLessons(c, o, limit, 0)
    \/ \E a \in StoreAttrArgs : TrackEntity("e1", a, 0)
    \/ \E a \in StoreAttrArgs : UpdateEntity("e1", a, 0)
    \/ \E id \in EntityIds, i \in IncludeFacts : GetEntity(id, i, 0)

StoreSpec == Init /\ [][StoreNext]_vars

\* The fact store with calls that raise part-way.
FaultNext ==
    \/ \E fact \in StoreContents, d \in Delays : Remember(fact, TagsOf(fact), 1, None, d)
    \/ \E limit \in Limits : Recall(<<"a">>, limit, 0)
    \/ RecallInterrupted(<<"a">>, 10, 0)
    \/ \E old \in StoreOldIds, fact \in StoreContents :
          Supersede(old, fact, TagsOf(fact), 1, None, 0)
    \/ \E old \in StoreOldIds, fact \in StoreContents :
          SupersedeInterrupted(old, fact, TagsOf(fact), 1, None, 0)
    \/ \E m \in MinAccessCounts, d \in Delays : Cleanup(0, m, d)

FaultSpec == Init /\ [][FaultNext]_vars

\* The store used inside and outside a with-block.
ScopeNext ==
    \/ Enter
    \/ \E exc \in Exceptions : Exit(exc)
    \/ Close
    \/ \E op \in Methods, d \in Delays : ClosedCall(op, d)
    \/ \E fact \in StoreContents, d \in Delays : Remember(fact, TagsOf(fact), 1, None, d)
    \/ Recall(<<"a">>, 10, 0)
    \/ \E old \in StoreOldIds, fact \in StoreContents :
          Supersede(old, fact, TagsOf(fact), 1, None, 0)
    \/ \E m \in MinAccessCounts, d \in Delays : Cleanup(0, m, d)
    \/ \E a \in LessonArgs : Learn(a, 0)
    \/ \E a \in StoreAttrArgs : TrackEntity("e1", a, 0)

ScopeSpec == Init /\ [][ScopeNext]_vars

\* Two handles on one store, their update_entity calls interleaving.
ConcurrentNext ==
    \/ \E h \in Handles, id \in EntityIds, a \in AttrArgs, d \in Delays :
          UpdateEntityRead(h, id, a, d)
    \/ \E h \in Handles : UpdateEntityWrite(h)
    \/ \E id \in EntityIds, d \in Delays : GetEntity(id, FALSE, d)

ConcurrentSpec == Init /\ [][ConcurrentNext]_vars

=============================================================================
